---- MODULE Spec2Model ----
(***************************************************************************)
(* The todo service of src/main.rs: four salvo handlers (list_todos,       *)
(* create_todo, update_todo, delete_todo) over STORE, a lazily built       *)
(* tokio Mutex<Vec<Todo>>.  Every handler is an async task; it is modelled *)
(* by the steps between its suspension points (the body decode and the     *)
(* lock().await) and, inside the critical section, by the statements that  *)
(* read and write the vector, which only the mutex keeps together.         *)
(***************************************************************************)
EXTENDS Integers, Sequences, FiniteSets, TLC

----------------------------------------------------------------------------
(* Bounds of the model *)

\* longest vector the model lets STORE grow to
MaxLen == 2
\* largest offset / limit a list request carries
MaxOpt == 3
\* number of concurrent POST requests in the create scenario
NumCreators == 3

\* std::usize::MAX.  TLC's integers are 32 bits wide, so the model takes the
\* largest value TLC represents; Skip and Take compare with it, never add to it.
UsizeMax == 2147483647

----------------------------------------------------------------------------
(* Data *)

\* Option<T>: None is the empty sequence, Some(x) the one-element sequence
None == << >>
Some(x) == << x >>
IsSome(o) == Len(o) = 1
\* Option::unwrap_or
UnwrapOr(o, d) == IF IsSome(o) THEN o[1] ELSE d

\* ids the clients of the general specification use (Todo.id is an i64)
Ids == {1, 2}
\* the todos the clients of the general specification send
Todos == { [id |-> 1, text |-> "a", completed |-> FALSE],
           [id |-> 1, text |-> "b", completed |-> TRUE],
           [id |-> 2, text |-> "a", completed |-> FALSE] }
\* the todos of the create scenario: ids 1..NumCreators, twice the id 1 with
\* different contents
CreatorTodos == { [id |-> i, text |-> "a", completed |-> FALSE] : i \in 1..NumCreators }
                  \cup { [id |-> 1, text |-> "b", completed |-> TRUE] }

\* a field of the ListOptions body as the client wrote it: absent from the
\* body; present as null; present with a value Option<usize> rejects (a string,
\* a negative number, ...); or present with a usize
Missing == << "missing" >>
Null == << "null" >>
Bad == << "bad" >>
Num(n) == << "num", n >>
RawFields == { Missing, Null, Bad } \cup { Num(n) : n \in 0..MaxOpt }
\* the fields the clients of the general specification put in a list request
FewRawFields == { Missing, Num(1) }

\* ListOptions::default()
DefaultOpts == [offset |-> None, limit |-> None]
NoTodo == [id |-> 0, text |-> "", completed |-> FALSE]

\* the request as it reaches the handler: kind selects the route, path is the
\* <id> segment (None when it is no i64), body the JSON todo (None when it does
\* not decode), opts the raw ListOptions
NoReq == [kind |-> "none", path |-> None, body |-> None,
          opts |-> [offset |-> Missing, limit |-> Missing]]
ListReq(o, l) == [NoReq EXCEPT !.kind = "list", !.opts = [offset |-> o, limit |-> l]]
CreateReq(b) == [NoReq EXCEPT !.kind = "create", !.body = b]
UpdateReq(i, b) == [NoReq EXCEPT !.kind = "update", !.path = i, !.body = b]
DeleteReq(i) == [NoReq EXCEPT !.kind = "delete", !.path = i]

\* the handler's locals: id (path parameter), todo (new_todo / updated_todo),
\* opts, len, todos (the clone list_todos pages)
NoLoc == [id |-> 0, todo |-> NoTodo, opts |-> DefaultOpts, len |-> 0, todos |-> << >>]
\* the response: status 0 until the handler sets one, body the rendered JSON
NoRes == [status |-> 0, body |-> << >>]

----------------------------------------------------------------------------
(* Pure functions of the handlers *)

\* a field of ListOptions decoded: Option<usize> is Some of a usize, None of
\* an absent field and of null
ParseField(f) == IF f[1] = "num" THEN Some(f[2]) ELSE None

\* mutant of the options decode: every field falls back on its own
ParseFieldwise(raw) ==
    [offset |-> ParseField(raw.offset), limit |-> ParseField(raw.limit)]

\* req.parse_body::<ListOptions>().await.unwrap_or_default(): serde rejects the
\* whole body when one field holds a value Option<usize> rejects, and the
\* default takes its place; an absent field and a null decode to None and
\* reject nothing
ParseListOptions(raw) ==
    IF raw.offset = Bad \/ raw.limit = Bad
    THEN DefaultOpts
    ELSE [offset |-> ParseField(raw.offset), limit |-> ParseField(raw.limit)]

\* Iterator::skip(n)
Skip(s, n) == IF n >= Len(s) THEN << >> ELSE SubSeq(s, n + 1, Len(s))
\* Iterator::take(n)
Take(s, n) == IF n >= Len(s) THEN s ELSE SubSeq(s, 1, n)

\* mutant of the pagination: take before skip
PageTakeThenSkip(s, opts) ==
    Skip(Take(s, UnwrapOr(opts.limit, UsizeMax)), UnwrapOr(opts.offset, 0))

\* the pagination of list_todos
Page(s, opts) == Take(Skip(s, UnwrapOr(opts.offset, 0)), UnwrapOr(opts.limit, UsizeMax))

\* mutants of the scan: it stops before the last element; it takes any stored
\* todo for a match
ExistsBeforeLast(s, id) == \E i \in 1..(Len(s) - 1) : s[i].id = id
ExistsAny(s, id) == Len(s) > 0

\* the scan of create_todo: some stored todo has this id
Exists(s, id) == \E i \in 1..Len(s) : s[i].id = id

\* index of the first todo with this id, 0 when there is none (the iter_mut
\* loop of update_todo stops at the first match)
FirstIndex(s, id) ==
    IF Exists(s, id)
    THEN CHOOSE i \in 1..Len(s) : s[i].id = id /\ \A j \in 1..(i - 1) : s[j].id # id
    ELSE 0

\* mutants of the replacement: the match is removed and the new todo pushed;
\* a todo that matches nothing is pushed
ReplaceMoveToEnd(s, id, t) ==
    IF FirstIndex(s, id) = 0
    THEN s
    ELSE Append(SubSeq(s, 1, FirstIndex(s, id) - 1) \o SubSeq(s, FirstIndex(s, id) + 1, Len(s)), t)
ReplaceOrPush(s, id, t) ==
    IF FirstIndex(s, id) = 0 THEN Append(s, t) ELSE [s EXCEPT ![FirstIndex(s, id)] = t]

\* *todo = updated_todo at the first match
Replace(s, id, t) ==
    IF FirstIndex(s, id) = 0 THEN s ELSE [s EXCEPT ![FirstIndex(s, id)] = t]

\* mutant of the removal: only the first match goes
RemoveFirst(s, id) ==
    IF FirstIndex(s, id) = 0
    THEN s
    ELSE SubSeq(s, 1, FirstIndex(s, id) - 1) \o SubSeq(s, FirstIndex(s, id) + 1, Len(s))

\* mutant of the delete: the first match goes by Vec::swap_remove, the last
\* entry taking its place
RetainSwapRemove(s, id) ==
    IF FirstIndex(s, id) = 0
    THEN s
    ELSE [ k \in 1..(Len(s) - 1) |-> IF k = FirstIndex(s, id) THEN s[Len(s)] ELSE s[k] ]

\* vec.retain(|todo| todo.id != id)
Retain(s, id) == SelectSeq(s, LAMBDA t : t.id # id)

\* mutant of the push: the todo goes to the front
PushFront(s, t) == << t >> \o s

\* vec.push(new_todo)
Push(s, t) == Append(s, t)

----------------------------------------------------------------------------
(* State *)

VARIABLES
    store,   \* STORE: the Vec<Todo> inside the mutex
    owner,   \* the task holding the mutex, 0 when it is free
    pc,      \* pc[p]: where task p is in its handler
    req,     \* req[p]: the request task p serves
    loc,     \* loc[p]: the locals of p's handler
    res      \* res[p]: the response p's handler has built

vars == << store, owner, pc, req, loc, res >>

Procs == DOMAIN pc

\* the two connection tasks of the general specification
Handlers == {1, 2}
\* the tasks of the create scenario
Creators == 1..NumCreators

\* new_store(): an empty vector behind a free mutex; every task idle
InitWith(P) ==
    /\ store = << >>
    /\ owner = 0
    /\ pc = [p \in P |-> "idle"]
    /\ req = [p \in P |-> NoReq]
    /\ loc = [p \in P |-> NoLoc]
    /\ res = [p \in P |-> NoRes]

Init == InitWith(Handlers)

\* requests that will push unless they find their id
Pushing == { p \in Procs : req[p].kind = "create" /\ pc[p] \in {"decode", "lock", "scan", "push"} }

\* the requests the clients of the general specification send
Requests ==
    { ListReq(o, l) : o \in FewRawFields, l \in FewRawFields }
    \cup { CreateReq(b) : b \in { None } \cup { Some(t) : t \in Todos } }
    \cup { UpdateReq(i, b) : i \in { None } \cup { Some(i) : i \in Ids },
                             b \in { None } \cup { Some(t) : t \in Todos } }
    \cup { DeleteReq(i) : i \in { None } \cup { Some(i) : i \in Ids } }

\* the list requests of the pagination specification: every raw field
WideListRequests == { ListReq(o, l) : o \in RawFields, l \in RawFields }

\* bound of the model: the vector has room, within MaxLen, for what r may push
Room(r) == r.kind = "create" => Len(store) + Cardinality(Pushing) < MaxLen

\* the router hands request r to a connection task
Accept(p, r) ==
    /\ pc[p] = "idle"
    /\ pc' = [pc EXCEPT ![p] = "decode"]
    /\ req' = [req EXCEPT ![p] = r]
    /\ UNCHANGED << store, owner, loc, res >>

Receive(p) == \E r \in Requests : Room(r) /\ Accept(p, r)

\* a GET /todos with any options
ReceiveList(p) == \E r \in WideListRequests : Accept(p, r)

\* the requests of the ordering scenario: the todos of the create scenario
\* posted and deleted, the todo of id 1 put with either of its contents, and
\* the plain GET /todos
OrderRequests ==
    { CreateReq(Some(t)) : t \in CreatorTodos }
    \cup { UpdateReq(Some(t.id), Some(t)) : t \in { u \in CreatorTodos : u.id = 1 } }
    \cup { DeleteReq(Some(t.id)) : t \in CreatorTodos }
    \cup { ListReq(Missing, Missing) }

ReceiveOrder(p) == \E r \in OrderRequests : Accept(p, r)

\* a POST /todos of the create scenario
ReceiveCreate(p) == \E t \in CreatorTodos : Accept(p, CreateReq(Some(t)))

\* mutant of the panic: the decode error is swallowed and the handler goes on
\* to the lock with what it has
PanicSwallowed(p) ==
    /\ pc' = [pc EXCEPT ![p] = "lock"]
    /\ UNCHANGED << store, owner, req, loc, res >>

\* the handler panics on unwrap(): its task ends without a response and the
\* unwinding drops its locals; it holds no lock yet
Panic(p) ==
    /\ pc' = [pc EXCEPT ![p] = "panicked"]
    /\ loc' = [loc EXCEPT ![p] = NoLoc]
    /\ UNCHANGED << store, owner, req, res >>

\* line 42: the options decode, or default
ListDecode(p) ==
    /\ pc[p] = "decode" /\ req[p].kind = "list"
    /\ loc' = [loc EXCEPT ![p].opts = ParseListOptions(req[p].opts)]
    /\ pc' = [pc EXCEPT ![p] = "lock"]
    /\ UNCHANGED << store, owner, req, res >>

\* line 61: parse_body::<Todo>().await.unwrap()
CreateDecode(p) ==
    /\ pc[p] = "decode" /\ req[p].kind = "create"
    /\ IF IsSome(req[p].body)
       THEN /\ loc' = [loc EXCEPT ![p].todo = req[p].body[1]]
            /\ pc' = [pc EXCEPT ![p] = "lock"]
            /\ UNCHANGED << store, owner, req, res >>
       ELSE Panic(p)

\* line 86: param::<i64>("id").unwrap(), at the handler's first poll; the
\* handler then suspends at the parse_body().await of line 88
UpdateParam(p) ==
    /\ pc[p] = "decode" /\ req[p].kind = "update"
    /\ IF IsSome(req[p].path)
       THEN /\ loc' = [loc EXCEPT ![p].id = req[p].path[1]]
            /\ pc' = [pc EXCEPT ![p] = "body"]
            /\ UNCHANGED << store, owner, req, res >>
       ELSE Panic(p)

\* line 88: parse_body::<Todo>().await.unwrap(), when the body has arrived
UpdateDecode(p) ==
    /\ pc[p] = "body"
    /\ IF IsSome(req[p].body)
       THEN /\ loc' = [loc EXCEPT ![p].todo = req[p].body[1]]
            /\ pc' = [pc EXCEPT ![p] = "lock"]
            /\ UNCHANGED << store, owner, req, res >>
       ELSE Panic(p)

\* line 111: param::<i64>("id").unwrap()
DeleteDecode(p) ==
    /\ pc[p] = "decode" /\ req[p].kind = "delete"
    /\ IF IsSome(req[p].path)
       THEN /\ loc' = [loc EXCEPT ![p].id = req[p].path[1]]
            /\ pc' = [pc EXCEPT ![p] = "lock"]
            /\ UNCHANGED << store, owner, req, res >>
       ELSE Panic(p)

\* mutant of the mutex: it excludes nobody
CanLockAlways(p) == TRUE

\* the mutex can be taken
CanLock(p) == owner = 0

\* the first statement of each critical section
Entry(kind) ==
    CASE kind = "list" -> "copy"
      [] kind = "create" -> "scan"
      [] kind = "update" -> "replace"
      [] kind = "delete" -> "len"

\* STORE.lock().await returns the guard
Lock(p) ==
    /\ pc[p] = "lock"
    /\ CanLock(p)
    /\ owner' = p
    /\ pc' = [pc EXCEPT ![p] = Entry(req[p].kind)]
    /\ UNCHANGED << store, req, loc, res >>

\* the handler returns with this response: its locals and the guard are dropped
Return(p, status, body) ==
    /\ res' = [res EXCEPT ![p] = [status |-> status, body |-> body]]
    /\ loc' = [loc EXCEPT ![p] = NoLoc]
    /\ owner' = IF owner = p THEN 0 ELSE owner
    /\ pc' = [pc EXCEPT ![p] = "done"]
    /\ UNCHANGED req

\* line 49: todos.clone() copies the vector element by element, up to its
\* length
ListClone(p) ==
    /\ pc[p] = "copy"
    /\ IF Len(loc[p].todos) < Len(store)
       THEN /\ loc' = [loc EXCEPT ![p].todos = Append(@, store[Len(@) + 1])]
            /\ UNCHANGED pc
       ELSE /\ pc' = [pc EXCEPT ![p] = "clone"]
            /\ UNCHANGED loc
    /\ UNCHANGED << store, owner, req, res >>

\* lines 50-55: skip, take, collect on the clone, render
ListBody(p) ==
    /\ pc[p] = "clone"
    /\ Return(p, 200, Page(loc[p].todos, loc[p].opts))
    /\ UNCHANGED store

\* lines 68-75: the scan for the id
CreateScan(p) ==
    /\ pc[p] = "scan"
    /\ IF Exists(store, loc[p].todo.id)
       THEN Return(p, 400, << >>)
       ELSE /\ pc' = [pc EXCEPT ![p] = "push"]
            /\ UNCHANGED << owner, req, loc, res >>
    /\ UNCHANGED store

\* lines 77-79: push, CREATED
CreatePush(p) ==
    /\ pc[p] = "push"
    /\ store' = Push(store, loc[p].todo)
    /\ Return(p, 201, << >>)

\* lines 94-104: replace the first match, or NOT_FOUND
UpdateBody(p) ==
    /\ pc[p] = "replace"
    /\ store' = Replace(store, loc[p].id, loc[p].todo)
    /\ Return(p, IF Exists(store, loc[p].id) THEN 200 ELSE 404, << >>)

\* line 118: let len = vec.len()
DeleteLen(p) ==
    /\ pc[p] = "len"
    /\ loc' = [loc EXCEPT ![p].len = Len(store)]
    /\ pc' = [pc EXCEPT ![p] = "retain"]
    /\ UNCHANGED << store, owner, req, res >>

\* lines 122-131: retain, compare the lengths
DeleteRetain(p) ==
    /\ pc[p] = "retain"
    /\ store' = Retain(store, loc[p].id)
    /\ Return(p, IF Len(store') # loc[p].len THEN 204 ELSE 404, << >>)

\* mutant of the suspension points: the handler also awaits inside its
\* critical section
CancellableAnywhere(p) == pc[p] \notin {"idle", "done", "panicked", "cancelled"}

\* the handler's future can be dropped where it is suspended: at
\* parse_body().await (line 42 of list_todos and 61 of create_todo, which
\* nothing precedes, and line 88 of update_todo) and at STORE.lock().await
\* (lines 45, 65, 91, 115); update_todo and delete_todo run their param()
\* at their first poll, and no await follows the lock
Cancellable(p) ==
    \/ pc[p] \in {"body", "lock"}
    \/ pc[p] = "decode" /\ req[p].kind \in {"list", "create"}

\* the transport drops the handler's future: its locals, and the guard if it
\* holds one, are dropped; no response is built
Cancel(p) ==
    /\ Cancellable(p)
    /\ pc' = [pc EXCEPT ![p] = "cancelled"]
    /\ loc' = [loc EXCEPT ![p] = NoLoc]
    /\ owner' = IF owner = p THEN 0 ELSE owner
    /\ UNCHANGED << store, req, res >>

\* the response is sent (or the panicked or cancelled task is reaped) and the
\* connection task is free for the next request
Finish(p) ==
    /\ pc[p] \in {"done", "panicked", "cancelled"}
    /\ pc' = [pc EXCEPT ![p] = "idle"]
    /\ req' = [req EXCEPT ![p] = NoReq]
    /\ res' = [res EXCEPT ![p] = NoRes]
    /\ UNCHANGED << store, owner, loc >>

Next ==
    \/ \E p \in Procs : Receive(p)
    \/ \E p \in Procs : ListDecode(p)
    \/ \E p \in Procs : CreateDecode(p)
    \/ \E p \in Procs : UpdateParam(p)
    \/ \E p \in Procs : UpdateDecode(p)
    \/ \E p \in Procs : DeleteDecode(p)
    \/ \E p \in Procs : Lock(p)
    \/ \E p \in Procs : ListClone(p)
    \/ \E p \in Procs : ListBody(p)
    \/ \E p \in Procs : CreateScan(p)
    \/ \E p \in Procs : CreatePush(p)
    \/ \E p \in Procs : UpdateBody(p)
    \/ \E p \in Procs : DeleteLen(p)
    \/ \E p \in Procs : DeleteRetain(p)
    \/ \E p \in Procs : Finish(p)

Spec == Init /\ [][Next]_vars

(* The general specification with the transport dropping requests.          *)
NextCancel ==
    \/ \E p \in Procs : Cancel(p)
    \/ Next

SpecCancel == Init /\ [][NextCancel]_vars

\* a step of p's handler other than taking the mutex
Run(p) ==
    \/ ListDecode(p) \/ CreateDecode(p) \/ UpdateParam(p) \/ UpdateDecode(p)
    \/ DeleteDecode(p)
    \/ ListClone(p) \/ ListBody(p) \/ CreateScan(p) \/ CreatePush(p)
    \/ UpdateBody(p) \/ DeleteLen(p) \/ DeleteRetain(p)

(* The general specification under the runtime's scheduling: tokio polls    *)
(* every task that can run, and tokio::sync::Mutex hands the lock to its    *)
(* waiters in the order they arrived, so no waiter is passed over for ever. *)
Fairness ==
    \A p \in Handlers :
        /\ WF_vars(Run(p))
        /\ SF_vars(Lock(p))
        /\ WF_vars(Finish(p))

SpecFair == Spec /\ Fairness

(* One connection, so one request at a time, with every shape of list       *)
(* options.                                                                 *)
InitList == InitWith({1})

NextList ==
    \/ \E p \in Procs : ReceiveList(p)
    \/ Next

SpecList == InitList /\ [][NextList]_vars

(* NumCreators clients POST one todo each, at once, against the new store,  *)
(* and nothing else runs.                                                   *)
InitCreates == InitWith(Creators)

NextCreates ==
    \/ \E p \in Procs : ReceiveCreate(p)
    \/ \E p \in Procs : CreateDecode(p)
    \/ \E p \in Procs : Lock(p)
    \/ \E p \in Procs : CreateScan(p)
    \/ \E p \in Procs : CreatePush(p)

SpecCreates == InitCreates /\ [][NextCreates]_vars

(* Two connections post, put, delete and list the todos of the create       *)
(* scenario, every put under the id of its body: the ids stay unique and    *)
(* the vector grows to NumCreators entries.                                 *)
NextOrder ==
    \/ \E p \in Procs : ReceiveOrder(p)
    \/ \E p \in Procs : ListDecode(p)
    \/ \E p \in Procs : CreateDecode(p)
    \/ \E p \in Procs : UpdateParam(p)
    \/ \E p \in Procs : UpdateDecode(p)
    \/ \E p \in Procs : DeleteDecode(p)
    \/ \E p \in Procs : Lock(p)
    \/ \E p \in Procs : ListClone(p)
    \/ \E p \in Procs : ListBody(p)
    \/ \E p \in Procs : CreateScan(p)
    \/ \E p \in Procs : CreatePush(p)
    \/ \E p \in Procs : UpdateBody(p)
    \/ \E p \in Procs : DeleteLen(p)
    \/ \E p \in Procs : DeleteRetain(p)
    \/ \E p \in Procs : Finish(p)

SpecOrder == Init /\ [][NextOrder]_vars

----------------------------------------------------------------------------
(* Vocabulary of the properties, independent of the handlers' operators *)

\* the ids of the stored todos
IdsOf(s) == { s[i].id : i \in 1..Len(s) }
\* the positions holding this id
Positions(s, id) == { i \in 1..Len(s) : s[i].id = id }
\* s[from+1 .. to], empty when to <= from
Segment(s, from, to) == [ i \in 1..(IF to > from THEN to - from ELSE 0) |-> s[from + i] ]
\* s without the element at position i
Without(s, i) == [ j \in 1..(Len(s) - 1) |-> IF j < i THEN s[j] ELSE s[j + 1] ]
\* task p leaves the statement at this pc in this step
Leaves(p, at) == pc[p] = at /\ pc'[p] # at
\* task p is done with a request of this kind and this status
Answered(p, kind, status) ==
    pc[p] = "done" /\ req[p].kind = kind /\ res[p].status = status

----------------------------------------------------------------------------
(* C1: no two stored todos share an id, whatever requests ran. *)
C1_UniqueIds ==
    \A i, j \in 1..Len(store) : i # j => store[i].id # store[j].id

(* C2: a create whose id is already stored answers 400 and leaves the      *)
(* vector exactly as it was.                                                *)
C2_DuplicateRejected ==
    [][ \A p \in Procs :
          (Leaves(p, "scan") /\ loc[p].todo.id \in IdsOf(store))
          => /\ pc'[p] = "done"
             /\ res'[p].status = 400
             /\ store' = store ]_vars

C2_Witness ==
    \E p \in Procs :
        /\ Answered(p, "create", 400)
        /\ req[p].body[1].id \in IdsOf(store)
        /\ Len(store) = 2

(* C3: a create whose id is not stored answers 201 and appends the todo as  *)
(* the last element; a list without options then holds exactly one todo     *)
(* equal to it, in last position.                                           *)
C3_FreshAppended ==
    [][ \A p \in Procs :
          /\ (Leaves(p, "scan") /\ loc[p].todo.id \notin IdsOf(store))
             => (pc'[p] = "push" /\ store' = store /\ loc'[p] = loc[p])
          /\ Leaves(p, "push")
             => /\ loc[p].todo.id \notin IdsOf(store)
                /\ pc'[p] = "done"
                /\ res'[p].status = 201
                /\ Len(store') = Len(store) + 1
                /\ Segment(store', 0, Len(store)) = store
                /\ store'[Len(store')] = loc[p].todo
                /\ LET listed == Page(store', DefaultOpts)
                   IN  { i \in 1..Len(listed) : listed[i] = loc[p].todo }
                         = { Len(store) + 1 } ]_vars

C3_Witness ==
    \E p \in Procs :
        /\ Answered(p, "create", 201)
        /\ Len(store) = 2
        /\ store[2] = req[p].body[1]
        /\ store[1] # store[2]

(* C4: of the concurrent creates of one id against a store without it,      *)
(* exactly one answers 201, every other answers 400, and the store ends     *)
(* with exactly one todo of that id.                                        *)
C4_OneCreateWins ==
    /\ \A p, q \in Procs :
         (p # q /\ Answered(p, "create", 201) /\ Answered(q, "create", 201))
         => req[p].body[1].id # req[q].body[1].id
    /\ (\A p \in Procs : pc[p] = "done")
       => \A p \in Procs :
            LET id == req[p].body[1].id
                same == { q \in Procs : req[q].body[1].id = id }
            IN  /\ Cardinality({ q \in same : res[q].status = 201 }) = 1
                /\ \A q \in same : res[q].status \in {201, 400}
                /\ Cardinality(Positions(store, id)) = 1

C4_Witness ==
    /\ \A p \in Procs : pc[p] = "done"
    /\ \E p, q \in Procs :
         /\ p # q
         /\ req[p].body[1].id = req[q].body[1].id
         /\ req[p].body[1] # req[q].body[1]
         /\ res[p].status = 201
         /\ res[q].status = 400

\* the ids the creators ask for are pairwise distinct
DistinctCreates ==
    \A p, q \in Procs : p # q => req[p].body[1].id # req[q].body[1].id

(* C5: concurrent creates of pairwise distinct ids, with nothing else       *)
(* running, all answer 201 and the store grows by one todo for each of      *)
(* them, holding all their ids.                                             *)
C5_DistinctCreatesAllStored ==
    ((\A p \in Procs : pc[p] = "done") /\ DistinctCreates)
    => /\ \A p \in Procs : res[p].status = 201
       /\ Len(store) = Cardinality(Procs)
       /\ IdsOf(store) = { req[p].body[1].id : p \in Procs }

C5_Witness ==
    /\ \A p \in Procs : Answered(p, "create", 201)
    /\ DistinctCreates
    /\ Len(store) = NumCreators
    /\ store[1].id # 1

(* C6: an update of a stored id answers 200; the position that held the id  *)
(* (the first one) holds the new todo, the length and every other position  *)
(* are unchanged.                                                           *)
C6_UpdateInPlace ==
    [][ \A p \in Procs :
          (Leaves(p, "replace") /\ loc[p].id \in IdsOf(store))
          => /\ pc'[p] = "done"
             /\ res'[p].status = 200
             /\ Len(store') = Len(store)
             /\ \E i \in Positions(store, loc[p].id) :
                  /\ \A j \in Positions(store, loc[p].id) : i <= j
                  /\ store'[i] = loc[p].todo
                  /\ \A k \in 1..Len(store) : k # i => store'[k] = store[k] ]_vars

C6_Witness ==
    \E p \in Procs :
        /\ Answered(p, "update", 200)
        /\ Len(store) = 2
        /\ store[2] = req[p].body[1]
        /\ store[1].id # req[p].path[1]
        /\ store[1] # store[2]

(* C7: an update of an id that is not stored answers 404 and leaves the     *)
(* vector as it was, whatever id the body carries.                          *)
C7_UpdateAbsent ==
    [][ \A p \in Procs :
          (Leaves(p, "replace") /\ loc[p].id \notin IdsOf(store))
          => /\ pc'[p] = "done"
             /\ res'[p].status = 404
             /\ store' = store ]_vars

C7_Witness ==
    \E p \in Procs :
        /\ Answered(p, "update", 404)
        /\ req[p].path[1] \notin IdsOf(store)
        /\ req[p].body[1].id # req[p].path[1]
        /\ Len(store) >= 1

(* C8: a delete of a stored id answers 204, shortens the vector by exactly  *)
(* one, keeps the remaining todos in their order, and a list right after    *)
(* it holds no todo of that id.                                             *)
C8_DeleteRemovesOne ==
    [][ \A p \in Procs :
          (Leaves(p, "retain") /\ loc[p].id \in IdsOf(store))
          => /\ pc'[p] = "done"
             /\ res'[p].status = 204
             /\ Len(store') = Len(store) - 1
             /\ \E i \in Positions(store, loc[p].id) : store' = Without(store, i)
             /\ loc[p].id \notin IdsOf(Page(store', DefaultOpts)) ]_vars

(* C9: a delete of an id that is not stored answers 404 and leaves the      *)
(* vector as it was; a delete leaves no todo of its id, so the same delete  *)
(* again answers 404 after the 204.                                         *)
C9_DeleteAbsent ==
    [][ \A p \in Procs :
          /\ Leaves(p, "len")
             => (pc'[p] = "retain" /\ loc'[p].len = Len(store) /\ store' = store)
          /\ Leaves(p, "retain")
             => /\ pc'[p] = "done"
                /\ loc[p].id \notin IdsOf(store')
                /\ loc[p].id \in IdsOf(store) => res'[p].status = 204
                /\ loc[p].id \notin IdsOf(store)
                   => (res'[p].status = 404 /\ store' = store) ]_vars

C9_Witness ==
    \E p, q \in Procs :
        /\ Answered(p, "delete", 204)
        /\ Answered(q, "delete", 404)
        /\ req[p].path = req[q].path
        /\ req[q].path[1] \notin IdsOf(store)
        /\ Len(store) >= 1

(* C10: list(offset, limit) answers 200 with the todos                      *)
(* s[offset+1 .. min(len(s), offset+limit)] in store order: at most limit   *)
(* of them, none when offset >= len(s), all of s without options.           *)
C10_ListPage ==
    [][ \A p \in Procs :
          Leaves(p, "clone")
          => LET s == store
                 o == IF IsSome(loc[p].opts.offset) THEN loc[p].opts.offset[1] ELSE 0
                 bounded == IsSome(loc[p].opts.limit)
                 hi == IF bounded /\ o + loc[p].opts.limit[1] < Len(s)
                       THEN o + loc[p].opts.limit[1]
                       ELSE Len(s)
                 out == res'[p].body
             IN  /\ pc'[p] = "done"
                 /\ res'[p].status = 200
                 /\ store' = s
                 /\ out = Segment(s, o, hi)
                 /\ bounded => Len(out) <= loc[p].opts.limit[1]
                 /\ o >= Len(s) => out = << >>
                 /\ loc[p].opts = DefaultOpts => out = s ]_vars

C10_Witness ==
    \E p \in Procs :
        /\ Answered(p, "list", 200)
        /\ req[p].opts = [offset |-> Num(1), limit |-> Num(1)]
        /\ Len(store) = 2
        /\ store[1] # store[2]
        /\ res[p].body = << store[2] >>

(* C11: a create or update whose body does not decode ends in a 400         *)
(* response, never in a panic of the handler, with the store as it was.     *)
C11_BadBodyAnswered400 ==
    \A p \in Procs :
        (req[p].kind \in {"create", "update"} /\ ~IsSome(req[p].body)
           /\ pc[p] \notin {"decode", "body"})
        => (pc[p] = "done" /\ res[p].status = 400)

\* task p is inside its store operation: it holds the guard and reads or
\* writes the vector
InStore(p) == pc[p] \in {"copy", "clone", "scan", "push", "replace", "len", "retain"}

(* C12: at most one request, of any kind, is inside its store operation,    *)
(* and it is the one holding the mutex.                                     *)
C12_MutualExclusion ==
    /\ \A p, q \in Procs : (InStore(p) /\ InStore(q)) => p = q
    /\ \A p \in Procs : InStore(p) => owner = p
    /\ owner # 0 => InStore(owner)

C12_Witness ==
    \E p, q \in Procs :
        /\ req[p].kind = "list" /\ pc[p] = "copy" /\ Len(loc[p].todos) = 1
        /\ req[q].kind = "delete" /\ pc[q] = "lock"
        /\ Len(store) = 2

\* no task outside its store operation holds the mutex
LockReleased ==
    \A p \in Procs :
        pc[p] \in {"idle", "decode", "body", "lock", "done", "panicked", "cancelled"} => owner # p
\* while a task waits for the mutex, some handler can take a step
NoDeadlock ==
    (\E p \in Procs : pc[p] = "lock") => \E q \in Procs : ENABLED (Lock(q) \/ Run(q))
\* every task waiting for the mutex comes to hold it
WaitersAcquire == \A p \in Handlers : (pc[p] = "lock") ~> (owner = p)
\* every request a handler has started on comes to have its response
StartedAnswered == \A p \in Handlers : (pc[p] = "decode") ~> (pc[p] = "done")

(* C13: every handler releases the mutex on every exit path, so nothing     *)
(* deadlocks and, under fair scheduling, every request waiting for the      *)
(* mutex acquires it and every started request produces a response.         *)
C13_ReleasedAndLive ==
    /\ [](LockReleased /\ NoDeadlock)
    /\ WaitersAcquire
    /\ StartedAnswered

\* the page of s the decoded options ask for: s[o+1 .. min(len(s), o+l)], with
\* o = 0 without an offset and no upper end without a limit
SliceOf(s, opts) ==
    LET o == IF opts.offset = << >> THEN 0 ELSE opts.offset[1]
        hi == IF opts.limit # << >> /\ o + opts.limit[1] < Len(s)
              THEN o + opts.limit[1]
              ELSE Len(s)
    IN  Segment(s, o, hi)

(* C14: no step of a list request changes the vector, and its response is   *)
(* the page of the vector as it stands at one instant, the one of the       *)
(* response, whatever creates, updates and deletes run beside it.           *)
C14_ListSnapshot ==
    [][ \A p \in Procs :
          req[p].kind = "list"
          => /\ (pc'[p] # pc[p] \/ loc'[p] # loc[p] \/ res'[p] # res[p]) => store' = store
             /\ Leaves(p, "clone")
                => /\ pc'[p] = "done"
                   /\ res'[p].body = SliceOf(store, loc[p].opts) ]_vars

C14_Witness ==
    \E p, q \in Procs :
        /\ Answered(p, "list", 200)
        /\ Len(res[p].body) = 2
        /\ res[p].body = store
        /\ req[q].kind \in {"create", "update", "delete"}
        /\ pc[q] = "lock"

\* the elements of s at the positions K, in their order
Pick(s, K) ==
    LET at(j) == CHOOSE i \in K : Cardinality({ k \in K : k < i }) = j - 1
    IN  [ j \in 1..Cardinality(K) |-> s[at(j)] ]

\* the store as a plain sequence, one operation at a time: the sequence and
\* the response each operation leaves
SeqCreate(s, t) ==
    IF t.id \in IdsOf(s)
    THEN [store |-> s, status |-> 400, body |-> << >>]
    ELSE [store |-> s \o << t >>, status |-> 201, body |-> << >>]
SeqUpdate(s, id, t) ==
    IF id \notin IdsOf(s)
    THEN [store |-> s, status |-> 404, body |-> << >>]
    ELSE LET first == CHOOSE i \in Positions(s, id) : \A j \in Positions(s, id) : i <= j
         IN  [store |-> [ k \in 1..Len(s) |-> IF k = first THEN t ELSE s[k] ],
              status |-> 200, body |-> << >>]
SeqDelete(s, id) ==
    IF id \notin IdsOf(s)
    THEN [store |-> s, status |-> 404, body |-> << >>]
    ELSE [store |-> Pick(s, (1..Len(s)) \ Positions(s, id)), status |-> 204, body |-> << >>]
SeqList(s, opts) == [store |-> s, status |-> 200, body |-> SliceOf(s, opts)]

\* what the sequential store answers to p's request when it stands at s
SeqOutcome(p, s) ==
    CASE req[p].kind = "create" -> SeqCreate(s, req[p].body[1])
      [] req[p].kind = "update" -> SeqUpdate(s, req[p].path[1], req[p].body[1])
      [] req[p].kind = "delete" -> SeqDelete(s, req[p].path[1])
      [] req[p].kind = "list" -> SeqList(s, loc[p].opts)

\* the step in which p's store operation ends and its response is fixed
Commits(p) == InStore(p) /\ pc'[p] = "done"

(* C15: the store operations are serialized: every operation takes effect   *)
(* in one step, in which the vector and the response become what the        *)
(* sequential store gives for that request on the vector of that instant,   *)
(* and no other step changes the vector; so the responses and the final     *)
(* vector are those of the requests run one at a time in the order of       *)
(* these steps.                                                             *)
C15_Serialized ==
    [][ /\ \A p \in Procs :
             Commits(p)
             => /\ store' = SeqOutcome(p, store).store
                /\ res'[p].status = SeqOutcome(p, store).status
                /\ res'[p].body = SeqOutcome(p, store).body
        /\ (\A p \in Procs : ~Commits(p)) => store' = store ]_vars

C15_Witness ==
    \E p, q \in Procs :
        /\ Answered(p, "create", 201)
        /\ Answered(q, "update", 200)
        /\ req[q].path[1] = req[p].body[1].id
        /\ req[q].body[1] # req[p].body[1]
        /\ store = << req[q].body[1] >>

(* C16: the vector keeps the insertion order of the surviving entries: a    *)
(* create puts its entry after all the others, an update changes no         *)
(* position (at most one entry changes, where it stood), a delete leaves    *)
(* the remaining entries in their order, and nothing else reorders.         *)
C16_InsertionOrder ==
    [][ /\ \A p \in Procs :
             /\ Leaves(p, "push")
                => /\ Len(store') = Len(store) + 1
                   /\ \A k \in 1..Len(store) : store'[k] = store[k]
             /\ Leaves(p, "replace")
                => /\ Len(store') = Len(store)
                   /\ Cardinality({ k \in 1..Len(store) : store'[k] # store[k] }) <= 1
                   /\ \A k \in 1..Len(store) :
                        store[k].id # loc[p].id => store'[k] = store[k]
             /\ Leaves(p, "retain")
                => store' = Pick(store, { k \in 1..Len(store) : store[k].id # loc[p].id })
        /\ (\A p \in Procs : ~(Leaves(p, "push") \/ Leaves(p, "replace") \/ Leaves(p, "retain")))
           => store' = store ]_vars

\* a list answered with three todos, then the delete of the middle one
\* answered: the vector holds the first and the third, in that order
C16_Witness ==
    \E l, p \in Procs :
        /\ Answered(l, "list", 200)
        /\ Len(res[l].body) = 3
        /\ Answered(p, "delete", 204)
        /\ req[p].path[1] = res[l].body[2].id
        /\ store = << res[l].body[1], res[l].body[3] >>

\* a raw field read on its own: its number when it is one, nothing when it is
\* absent, null or unparsable
Lenient(f) == IF Len(f) = 2 THEN << f[2] >> ELSE << >>
\* the options with each field read on its own
FieldByField(raw) == [offset |-> Lenient(raw.offset), limit |-> Lenient(raw.limit)]
\* the options read as a whole: nothing of them when one field is unparsable
AllOrNothing(raw) ==
    IF << "bad" >> \in { raw.offset, raw.limit }
    THEN [offset |-> << >>, limit |-> << >>]
    ELSE FieldByField(raw)

\* p's list request does not fail and is served with these options
ListServedWith(p, opts) ==
    req[p].kind = "list"
    => /\ Leaves(p, "decode") => (pc'[p] = "lock" /\ loc'[p].opts = opts)
       /\ Leaves(p, "clone")
          => /\ pc'[p] = "done"
             /\ res'[p].status = 200
             /\ res'[p].body = SliceOf(store, opts)

(* C17, as claimed: list answers 200 for every combination of valid,        *)
(* missing and unparsable offset and limit; a missing or unparsable field   *)
(* falls back to its default and a valid field keeps its value.             *)
C17_FieldwiseFallback ==
    [][ \A p \in Procs : ListServedWith(p, FieldByField(req[p].opts)) ]_vars

(* C17, amended: list answers 200 for every combination; when no field is   *)
(* unparsable a missing (or null) field falls back to its default and a     *)
(* valid one keeps its value; when either field is unparsable both fall     *)
(* back to their defaults, the valid one too.                               *)
C17_WholeFallback ==
    [][ \A p \in Procs : ListServedWith(p, AllOrNothing(req[p].opts)) ]_vars

C17_Witness ==
    \E p \in Procs :
        /\ Answered(p, "list", 200)
        /\ req[p].opts = [offset |-> Num(1), limit |-> Bad]
        /\ Len(store) = 2
        /\ res[p].body = store

(* C18: a request is cancelled only while it decodes or waits for the       *)
(* mutex: it holds no lock then, the cancellation changes neither the       *)
(* vector nor the mutex, and the request takes no later step but its        *)
(* reaping; a request inside its store operation is never cancelled, it     *)
(* stays inside until it returns with its response.                         *)
C18_CancelledBeforeStoreCall ==
    [][ \A p \in Procs :
          /\ (pc[p] # "cancelled" /\ pc'[p] = "cancelled")
             => /\ pc[p] \in {"decode", "body", "lock"}
                /\ owner # p
                /\ owner' = owner
                /\ store' = store
          /\ pc[p] = "cancelled"
             => /\ pc'[p] \in {"cancelled", "idle"}
                /\ owner' # p
                /\ pc'[p] = "idle" => store' = store
          /\ InStore(p)
             => /\ pc'[p] = "done" \/ (pc'[p] # "cancelled" /\ owner' = p)
                /\ pc'[p] = "done" => owner' = 0 ]_vars

C18_Witness ==
    \E p, q \in Procs :
        /\ pc[p] = "cancelled"
        /\ req[p].kind = "create"
        /\ IsSome(req[p].body)
        /\ req[p].body[1].id \notin IdsOf(store)
        /\ req[q].kind = "delete"
        /\ pc[q] = "retain"
        /\ Len(store) = 1

\* p's request decodes: its body is a Todo and its path id an i64, where its
\* route reads them (the list options always decode, to their default if
\* need be)
Decodes(p) ==
    /\ req[p].kind \in {"create", "update"} => req[p].body # << >>
    /\ req[p].kind \in {"update", "delete"} => req[p].path # << >>
\* p's locals hold its decoded input
Decoded(p) ==
    /\ Decodes(p)
    /\ req[p].kind \in {"create", "update"} => loc[p].todo = req[p].body[1]
    /\ req[p].kind \in {"update", "delete"} => loc[p].id = req[p].path[1]
    /\ req[p].kind = "list" => loc[p].opts = AllOrNothing(req[p].opts)
\* the statements of the store operation of each route
StorePcs(kind) ==
    CASE kind = "list" -> {"copy", "clone"}
      [] kind = "create" -> {"scan", "push"}
      [] kind = "update" -> {"replace"}
      [] kind = "delete" -> {"len", "retain"}
      [] OTHER -> {}

(* C19: a handler takes the mutex only from its lock().await, with its      *)
(* input decoded, and never while it decodes; a request whose decode fails  *)
(* never takes it; a request runs the one store operation of its route and, *)
(* once it has returned, takes no further step but its reaping, so it       *)
(* neither locks twice nor retries.                                         *)
C19_DecodeThenOneStoreCall ==
    [][ \A p \in Procs :
          /\ (owner # p /\ owner' = p) => (pc[p] = "lock" /\ Decoded(p))
          /\ pc[p] \in {"decode", "body"} => owner # p
          /\ (pc[p] \in {"decode", "body"} /\ ~Decodes(p))
             => pc'[p] \in {"decode", "body", "panicked"}
          /\ pc[p] = "panicked" => (owner' # p /\ pc'[p] \in {"panicked", "idle"})
          /\ InStore(p)
             => /\ pc[p] \in StorePcs(req[p].kind)
                /\ pc'[p] \in StorePcs(req[p].kind) \cup {"done"}
          /\ pc[p] = "done" => (owner' # p /\ pc'[p] \in {"done", "idle"}) ]_vars

C19_Witness ==
    \E p, q \in Procs :
        /\ pc[p] = "panicked"
        /\ req[p].kind = "update"
        /\ req[p].path # << >>
        /\ req[p].body = << >>
        /\ Answered(q, "delete", 204)
        /\ req[q].path = req[p].path

====
